---- MODULE Spec2Model ----
(***************************************************************************)
(* State synchronisation of start-openclaw.sh: restore on boot, one-time   *)
(* R2 prefix migration, background pull/detect/push loop.                  *)
(*                                                                         *)
(* Objects and files are identified by their modification stamp: rclone    *)
(* decides "identical" by size and modtime, and copy/sync carry the        *)
(* modtime along, so a stamp stands for one version of a file.             *)
(***************************************************************************)
EXTENDS Integers, Sequences, FiniteSets, TLC

VARIABLES
    r2,         \* remote bucket: object key -> stamp, or Absent
    disk,       \* container file system: path -> mtime, or Absent
    dirs,       \* which of WORKSPACE_DIR, SKILLS_DIR exist as directories
    clock,      \* wall clock, the source of every new stamp
    r2cfg,      \* result of r2_configured (environment variables set)
    gateway,    \* a process matching "openclaw gateway" is running
    bootPc,     \* position of the start script's main shell
    cfgFound,   \* outcome of the config restore step
    bootWarn,   \* a WARNING line has been echoed (a restore copy failed)
    rsPc,       \* position of the background workspace/skills restore
    rsCount,    \* REMOTE_WS_COUNT / REMOTE_SK_COUNT of that subshell
    migPc,      \* position of the background migration subshell
    mig,        \* what the current migration invocation saw and did
    run,        \* number of the current invocation of the migration runner
    snap,       \* the bucket as it was when the current invocation began
    loopPc,     \* position of the background sync loop
    marker,     \* mtime of /tmp/.last-sync-marker, or Absent
    lastSync,   \* timestamp in /tmp/.last-sync, or Absent
    changed,    \* lines of /tmp/.changed-files
    det,        \* marker and last-sync record as they were when detection began
    steps,      \* commands the loop has run in its current cycle, in order
    cycleErrs,  \* rclone failures appended to /tmp/r2-sync.log in this cycle
    failed,     \* the rclone commands of this cycle that exited with an error
    hist,       \* what agents and outside parties did that the loop has yet to meet
    procs       \* invocations of the start script and the sync loops they left alive

vars == <<r2, disk, dirs, clock, r2cfg, gateway, bootPc, cfgFound, bootWarn,
          rsPc, rsCount, migPc, mig, run, snap,
          loopPc, marker, lastSync, changed, det, steps, cycleErrs, failed,
          hist, procs>>

bootVars == <<bootPc, cfgFound, bootWarn, gateway>>
rsVars   == <<rsPc, rsCount>>
migVars  == <<migPc, mig, run, snap>>
loopVars == <<loopPc, marker, lastSync, changed, det, steps, cycleErrs, failed>>

----------------------------------------------------------------------------
(* Bounds *)

MaxClock == 1
MaxRuns  == 2
MaxInv   == 3

Absent == 0 - 1
Stamps == 0..MaxClock

----------------------------------------------------------------------------
(* Paths and keys *)

CONFIG_DIR    == <<"root", ".openclaw">>
CONFIG_FILE   == CONFIG_DIR \o <<"openclaw.json">>
WORKSPACE_DIR == <<"root", "clawd">>
SKILLS_DIR    == <<"root", "clawd", "skills">>

R2Config      == <<"openclaw">>
R2ConfigFile  == <<"openclaw", "openclaw.json">>
R2Workspace   == <<"openclaw", "workspace">>
R2Skills      == <<"openclaw", "skills">>
R2Marker      == <<"openclaw", ".migrated-prefixes">>
R2LegacyCfg   == <<"clawdbot">>
R2LegacyFile  == <<"clawdbot", "clawdbot.json">>
R2LegacyWs    == <<"workspace">>
R2LegacySk    == <<"skills">>

\* The objects and files the model follows: one per tree.
R2Keys ==
    { R2ConfigFile, R2Marker, R2Config \o <<"clawdbot.json">>,
      R2Workspace \o <<"a.md">>, R2Skills \o <<"s.md">>,
      R2LegacyFile, R2LegacyWs \o <<"a.md">>, R2LegacySk \o <<"s.md">> }

DiskPaths ==
    { CONFIG_FILE, CONFIG_DIR \o <<"clawdbot.json">>,
      CONFIG_DIR \o <<".migrated-prefixes">>,
      CONFIG_DIR \o <<"workspace", "a.md">>, CONFIG_DIR \o <<"skills", "s.md">>,
      WORKSPACE_DIR \o <<"a.md">>, SKILLS_DIR \o <<"s.md">> }

IsUnder(k, pre) == Len(k) > Len(pre) /\ SubSeq(k, 1, Len(pre)) = pre
Rel(k, pre)     == SubSeq(k, Len(pre) + 1, Len(k))

\* The object a local file is mirrored to, and the file an object is pulled to.
R2Of(p) ==
    IF IsUnder(p, SKILLS_DIR) THEN R2Skills \o Rel(p, SKILLS_DIR)
    ELSE IF IsUnder(p, WORKSPACE_DIR) THEN R2Workspace \o Rel(p, WORKSPACE_DIR)
    ELSE R2Config \o Rel(p, CONFIG_DIR)
LocalOf(k) ==
    IF IsUnder(k, R2Skills) THEN SKILLS_DIR \o Rel(k, R2Skills)
    ELSE IF IsUnder(k, R2Workspace) THEN WORKSPACE_DIR \o Rel(k, R2Workspace)
    ELSE CONFIG_DIR \o Rel(k, R2Config)

\* The start script can be invoked several times in one container; before
\* any invocation no sync loop is alive.
Invocations == 1..MaxInv
NoProcs == [inv |-> [i \in Invocations |-> "idle"], loops |-> {}]

\* created: files an agent created after the marker was set and that no find
\* has searched since; deleted: files an agent deleted while the bucket held
\* the copy the loop had mirrored or pulled; uploaded: objects put into the bucket from outside and not pulled yet.
NoHist == [created |-> {}, deleted |-> {}, uploaded |-> {}]

----------------------------------------------------------------------------
(* rclone *)

\* The extension of a file name (the names the model follows).
FileExt(name) ==
    CASE name \in {"openclaw.json", "clawdbot.json"} -> "json"
      [] name \in {"a.md", "s.md"} -> "md"
      [] OTHER -> ""

\* --exclude='name/**' is <<"dir", name>>: any file below a directory of that
\* name; --exclude='*.ext' is <<"ext", ext>>: any file with that extension.
ExcludedBy(rel, pat) ==
    IF pat[1] = "dir"
    THEN \E i \in 1..(Len(rel) - 1) : rel[i] = pat[2]
    ELSE FileExt(rel[Len(rel)]) = pat[2]
Excluded(rel, excl)  == \E pat \in excl : ExcludedBy(rel, pat)

\* The files rclone lists below a prefix, after filtering.
Listing(store, pre, excl) ==
    { k \in DOMAIN store :
        IsUnder(k, pre) /\ store[k] # Absent /\ ~Excluded(Rel(k, pre), excl) }

\* Source files rclone copy/sync transfers: those the destination lacks or
\* holds in another version (no --update, no --ignore-existing).
Transfers(src, sp, dst, dp, excl) ==
    { s \in Listing(src, sp, excl) :
        /\ dp \o Rel(s, sp) \in DOMAIN dst
        /\ dst[dp \o Rel(s, sp)] # src[s] }

\* Destination files rclone sync deletes: listed there, not listed in the source.
Extras(src, sp, dst, dp, excl) ==
    { d \in Listing(dst, dp, excl) :
        sp \o Rel(d, dp) \notin Listing(src, sp, excl) }

\* The destination after the transfers `done` and the deletions `gone`.
Applied(src, sp, dst, dp, done, gone) ==
    [ k \in DOMAIN dst |->
        IF \E s \in done : dp \o Rel(s, sp) = k
        THEN src[CHOOSE s \in done : dp \o Rel(s, sp) = k]
        ELSE IF k \in gone THEN Absent ELSE dst[k] ]

\* rclone copy that runs to completion.
RcloneCopy(src, sp, dst, dp, excl) ==
    Applied(src, sp, dst, dp, Transfers(src, sp, dst, dp, excl), {})

\* rclone sync that runs to completion.
RcloneSync(src, sp, dst, dp, excl) ==
    Applied(src, sp, dst, dp, Transfers(src, sp, dst, dp, excl),
            Extras(src, sp, dst, dp, excl))

\* rclone purge that runs to completion.
RclonePurge(store, pre) ==
    [ k \in DOMAIN store |-> IF IsUnder(k, pre) THEN Absent ELSE store[k] ]

\* Outcomes of one rclone copy: complete when ok, any part of it when not.
CopyOutcomes(ok, src, sp, dst, dp, excl) ==
    IF ok THEN { RcloneCopy(src, sp, dst, dp, excl) }
    ELSE { Applied(src, sp, dst, dp, done, {}) :
             done \in SUBSET Transfers(src, sp, dst, dp, excl) }

\* Outcomes of one rclone sync: a failed run transfers a part and, having
\* seen errors, deletes nothing.
SyncOutcomes(ok, src, sp, dst, dp, excl) ==
    IF ok THEN { RcloneSync(src, sp, dst, dp, excl) }
    ELSE { Applied(src, sp, dst, dp, done, {}) :
             done \in SUBSET Transfers(src, sp, dst, dp, excl) }

\* Outcomes of one rclone purge.
PurgeOutcomes(ok, store, pre) ==
    IF ok THEN { RclonePurge(store, pre) }
    ELSE { [ k \in DOMAIN store |-> IF k \in gone THEN Absent ELSE store[k] ] :
             gone \in SUBSET { k \in DOMAIN store : IsUnder(k, pre) /\ store[k] # Absent } }

----------------------------------------------------------------------------
(* One-time R2 prefix migration (lines 102-115) *)

\* atCheck: the marker was in the bucket when line 104 read it; missed: it was
\* there and the read failed; failed: a copy or purge failed; wrote:
\* this invocation wrote the marker.
NoMig == [atCheck |-> FALSE, missed |-> FALSE, failed |-> FALSE, wrote |-> FALSE]

\* The check done with rclone lsf, which lists the marker's key as a directory
\* prefix and so never shows the marker itself.
MarkerFound_Lsf(readOk, store) == readOk /\ Listing(store, R2Marker, {}) # {}

\* rclone cat .migrated-prefixes | grep -q migrated: a failed read prints
\* nothing, and grep then finds nothing.
MarkerFound(readOk, store) == readOk /\ store[R2Marker] # Absent

MigCopyWsOutcomes(ok, store) ==
    CopyOutcomes(ok, store, R2LegacyWs, store, R2Workspace, {})
MigCopySkOutcomes(ok, store) ==
    CopyOutcomes(ok, store, R2LegacySk, store, R2Skills, {})
MigPurgeWsOutcomes(ok, store) == PurgeOutcomes(ok, store, R2LegacyWs)
\* The second purge aimed at the workspace prefix again.
MigPurgeSkOutcomes_WrongPrefix(ok, store) == PurgeOutcomes(ok, store, R2LegacyWs)
MigPurgeSkOutcomes(ok, store) == PurgeOutcomes(ok, store, R2LegacySk)
\* echo "migrated $(date -Iseconds)" | rclone rcat .migrated-prefixes
MigRcat(ok, store, now) == IF ok THEN [store EXCEPT ![R2Marker] = now] ELSE store

\* Line 104: the main shell reads the marker and, unless it finds the tag,
\* launches the migration subshell.
MigCheck ==
    /\ bootPc = "ck_marker"
    /\ \E readOk \in BOOLEAN :
        /\ migPc' = IF MarkerFound(readOk, r2) THEN "off" ELSE "copy_ws"
        /\ mig' = [NoMig EXCEPT
                     !.atCheck = (r2[R2Marker] # Absent),
                     !.missed = (r2[R2Marker] # Absent /\ ~readOk)]
    /\ bootPc' = "onboard"
    /\ UNCHANGED <<r2, disk, dirs, clock, r2cfg, gateway, cfgFound, bootWarn,
                   run, snap>>
    /\ UNCHANGED <<rsVars, loopVars>>
    /\ UNCHANGED <<hist, procs>>

\* One command of the subshell: `|| true` drops its exit status.
MigStep(at, next, okOutcomes, failOutcomes) ==
    /\ migPc = at
    /\ \E ok \in BOOLEAN :
        /\ r2' \in (IF ok THEN okOutcomes ELSE failOutcomes)
        /\ mig' = [mig EXCEPT !.failed = @ \/ ~ok]
    /\ migPc' = next
    /\ UNCHANGED <<disk, dirs, clock, r2cfg, run, snap>>
    /\ UNCHANGED <<bootVars, rsVars, loopVars>>
    /\ UNCHANGED <<hist, procs>>

MigCopyWs ==
    MigStep("copy_ws", "copy_sk",
            MigCopyWsOutcomes(TRUE, r2), MigCopyWsOutcomes(FALSE, r2))
MigCopySk ==
    MigStep("copy_sk", "purge_ws",
            MigCopySkOutcomes(TRUE, r2), MigCopySkOutcomes(FALSE, r2))
MigPurgeWs ==
    MigStep("purge_ws", "purge_sk",
            MigPurgeWsOutcomes(TRUE, r2), MigPurgeWsOutcomes(FALSE, r2))
MigPurgeSk ==
    MigStep("purge_sk", "rcat",
            MigPurgeSkOutcomes(TRUE, r2), MigPurgeSkOutcomes(FALSE, r2))

\* Line 112: the marker is written whatever the four commands returned.
MigWriteMarker ==
    /\ migPc = "rcat"
    /\ \E ok \in BOOLEAN :
        /\ r2' = MigRcat(ok, r2, clock)
        /\ mig' = [mig EXCEPT !.wrote = ok]
    /\ migPc' = "done"
    /\ UNCHANGED <<disk, dirs, clock, r2cfg, run, snap>>
    /\ UNCHANGED <<bootVars, rsVars, loopVars>>
    /\ UNCHANGED <<hist, procs>>

\* The commands of the subshell that have been run by this invocation.
MigOrder == <<"copy_ws", "copy_sk", "purge_ws", "purge_sk", "rcat", "done">>
MigPos(pc) == CHOOSE i \in 1..Len(MigOrder) : MigOrder[i] = pc
MigExecuted ==
    IF migPc = "off" THEN {}
    ELSE { MigOrder[i] : i \in 1..(MigPos(migPc) - 1) }

\* The invocation is over: the marker was found, or the subshell has ended.
MigEnded == bootPc = "onboard" /\ migPc \in {"off", "done"}

\* The next boot reaches line 104 again.
MigNextRun ==
    /\ MigEnded
    /\ run < MaxRuns
    /\ run' = run + 1
    /\ snap' = r2
    /\ bootPc' = "ck_marker"
    /\ migPc' = "off"
    /\ mig' = NoMig
    /\ UNCHANGED <<r2, disk, dirs, clock, r2cfg, gateway, cfgFound, bootWarn>>
    /\ UNCHANGED <<rsVars, loopVars>>
    /\ UNCHANGED <<hist, procs>>

MigKeys ==
    { R2Marker, R2Workspace \o <<"a.md">>, R2Skills \o <<"s.md">>,
      R2LegacyWs \o <<"a.md">>, R2LegacySk \o <<"s.md">> }

\* The migration runner alone, from any state of the bucket's migrated prefixes.
InitMigration ==
    /\ clock = MaxClock
    /\ r2 \in { f \in [R2Keys -> Stamps \cup {Absent}] :
                  /\ \A k \in R2Keys \ MigKeys : f[k] = Absent
                  /\ f[R2Marker] \in {Absent, 0} }
    /\ snap = r2
    /\ disk = [p \in DiskPaths |-> Absent]
    /\ dirs = {}
    /\ r2cfg = TRUE
    /\ gateway = FALSE
    /\ bootPc = "ck_marker"
    /\ cfgFound = "fresh"
    /\ bootWarn = FALSE
    /\ rsPc = "off"
    /\ rsCount = 0
    /\ migPc = "off"
    /\ mig = NoMig
    /\ run = 1
    /\ loopPc = "off"
    /\ marker = Absent
    /\ lastSync = Absent
    /\ changed = {}
    /\ det = [marker |-> Absent, lastSync |-> Absent]
    /\ steps = <<>>
    /\ cycleErrs = 0
    /\ failed = {}
    /\ hist = NoHist
    /\ procs = NoProcs

NextMigration ==
    \/ MigCheck
    \/ MigCopyWs
    \/ MigCopySk
    \/ MigPurgeWs
    \/ MigPurgeSk
    \/ MigWriteMarker
    \/ MigNextRun

SpecMigration == InitMigration /\ [][NextMigration]_vars

----------------------------------------------------------------------------
(* Main shell: guard, config restore, launches, onboard, patch, gateway *)

RestoreCfgExcl == { <<"dir", "workspace">>, <<"dir", "skills">> }

\* rclone ls KEY 2>/dev/null | grep -q NAME: a failed listing prints nothing.
ObjectListed(lsOk, store, key) == lsOk /\ store[key] # Absent

\* Lines 13-35 and 61: the pgrep guard, then r2_configured.
BootGuard ==
    /\ bootPc = "guard"
    /\ bootPc' = IF gateway THEN "exited"
                 ELSE IF r2cfg THEN "ck_config" ELSE "onboard"
    /\ UNCHANGED <<r2, disk, dirs, clock, r2cfg, gateway, cfgFound, bootWarn>>
    /\ UNCHANGED <<rsVars, migVars, loopVars>>
    /\ UNCHANGED <<hist, procs>>

\* Line 67.
BootCheckConfig ==
    /\ bootPc = "ck_config"
    /\ \E lsOk \in BOOLEAN :
        bootPc' = IF ObjectListed(lsOk, r2, R2ConfigFile)
                  THEN "cp_config" ELSE "ck_legacy"
    /\ UNCHANGED <<r2, disk, dirs, clock, r2cfg, gateway, cfgFound, bootWarn>>
    /\ UNCHANGED <<rsVars, migVars, loopVars>>
    /\ UNCHANGED <<hist, procs>>

RestoreCfgOutcomes(ok, store, fs) ==
    CopyOutcomes(ok, store, R2Config, fs, CONFIG_DIR, RestoreCfgExcl)

\* The same step under set -e: a failed copy ends the script.
BootRestoreConfig_SetE ==
    /\ bootPc = "cp_config"
    /\ \E ok \in BOOLEAN :
        /\ disk' \in RestoreCfgOutcomes(ok, r2, disk)
        /\ bootWarn' = (bootWarn \/ ~ok)
        /\ bootPc' = IF ok THEN "spawn_restore" ELSE "aborted"
    /\ cfgFound' = "current"
    /\ UNCHANGED <<r2, dirs, clock, r2cfg, gateway>>
    /\ UNCHANGED <<rsVars, migVars, loopVars>>
    /\ UNCHANGED <<hist, procs>>

\* Lines 68-70.
BootRestoreConfig ==
    /\ bootPc = "cp_config"
    /\ \E ok \in BOOLEAN :
        /\ disk' \in RestoreCfgOutcomes(ok, r2, disk)
        /\ bootWarn' = (bootWarn \/ ~ok)
    /\ cfgFound' = "current"
    /\ bootPc' = "spawn_restore"
    /\ UNCHANGED <<r2, dirs, clock, r2cfg, gateway>>
    /\ UNCHANGED <<rsVars, migVars, loopVars>>
    /\ UNCHANGED <<hist, procs>>

\* Line 71.
BootCheckLegacy ==
    /\ bootPc = "ck_legacy"
    /\ \E lsOk \in BOOLEAN :
        IF ObjectListed(lsOk, r2, R2LegacyFile)
        THEN bootPc' = "cp_legacy" /\ UNCHANGED cfgFound
        ELSE bootPc' = "spawn_restore" /\ cfgFound' = "fresh"
    /\ UNCHANGED <<r2, disk, dirs, clock, r2cfg, gateway, bootWarn>>
    /\ UNCHANGED <<rsVars, migVars, loopVars>>
    /\ UNCHANGED <<hist, procs>>

RestoreLegacyOutcomes(ok, store, fs) ==
    CopyOutcomes(ok, store, R2LegacyCfg, fs, CONFIG_DIR, RestoreCfgExcl)

\* Lines 74-76: clawdbot.json becomes openclaw.json unless that one exists.
RenameLegacy(fs) ==
    LET old == CONFIG_DIR \o <<"clawdbot.json">>
    IN  IF fs[old] # Absent /\ fs[CONFIG_FILE] = Absent
        THEN [fs EXCEPT ![CONFIG_FILE] = fs[old], ![old] = Absent]
        ELSE fs

\* Lines 72-77.
BootRestoreLegacy ==
    /\ bootPc = "cp_legacy"
    /\ \E ok \in BOOLEAN :
        /\ \E copied \in RestoreLegacyOutcomes(ok, r2, disk) :
              disk' = RenameLegacy(copied)
        /\ bootWarn' = (bootWarn \/ ~ok)
    /\ cfgFound' = "legacy"
    /\ bootPc' = "spawn_restore"
    /\ UNCHANGED <<r2, dirs, clock, r2cfg, gateway>>
    /\ UNCHANGED <<rsVars, migVars, loopVars>>
    /\ UNCHANGED <<hist, procs>>

\* Lines 83-100: ( ... ) & launches the workspace/skills restore.
BootSpawnRestore ==
    /\ bootPc = "spawn_restore"
    /\ rsPc' = "count_ws"
    /\ bootPc' = "ck_marker"
    /\ UNCHANGED <<r2, disk, dirs, clock, r2cfg, gateway, cfgFound, bootWarn,
                   rsCount>>
    /\ UNCHANGED <<migVars, loopVars>>
    /\ UNCHANGED <<hist, procs>>

\* Lines 123-150: openclaw onboard runs when no config file exists; it may
\* fail and leave none.
BootOnboard ==
    /\ bootPc = "onboard"
    /\ IF disk[CONFIG_FILE] = Absent
       THEN \E ok \in BOOLEAN :
              disk' = IF ok THEN [disk EXCEPT ![CONFIG_FILE] = clock] ELSE disk
       ELSE UNCHANGED disk
    /\ bootPc' = "patch"
    /\ UNCHANGED <<r2, dirs, clock, r2cfg, gateway, cfgFound, bootWarn>>
    /\ UNCHANGED <<rsVars, migVars, loopVars>>
    /\ UNCHANGED <<hist, procs>>

\* Lines 160-342: the patcher rewrites openclaw.json.
BootPatch ==
    /\ bootPc = "patch"
    /\ disk' = [disk EXCEPT ![CONFIG_FILE] = clock]
    /\ bootPc' = "start_loop"
    /\ UNCHANGED <<r2, dirs, clock, r2cfg, gateway, cfgFound, bootWarn>>
    /\ UNCHANGED <<rsVars, migVars, loopVars>>
    /\ UNCHANGED <<hist, procs>>

\* Lines 347-401: ( ... ) & launches the sync loop when R2 is configured.
BootStartLoop ==
    /\ bootPc = "start_loop"
    /\ loopPc' = IF r2cfg THEN "start" ELSE loopPc
    /\ bootPc' = "start_gateway"
    /\ UNCHANGED <<r2, disk, dirs, clock, r2cfg, gateway, cfgFound, bootWarn,
                   marker, lastSync, changed, det, steps, cycleErrs, failed>>
    /\ UNCHANGED <<rsVars, migVars>>
    /\ UNCHANGED <<hist, procs>>

\* Lines 406-422: exec openclaw gateway; the shell waits for nothing.
GatewayReady == bootPc = "start_gateway"

\* The start preceded by a `wait` for the background jobs.
BootGateway_Wait ==
    /\ GatewayReady
    /\ rsPc \in {"off", "done"}
    /\ migPc \in {"off", "done"}
    /\ gateway' = TRUE
    /\ bootPc' = "gateway"
    /\ UNCHANGED <<r2, disk, dirs, clock, r2cfg, cfgFound, bootWarn>>
    /\ UNCHANGED <<rsVars, migVars, loopVars>>
    /\ UNCHANGED <<hist, procs>>

BootGateway ==
    /\ GatewayReady
    /\ gateway' = TRUE
    /\ bootPc' = "gateway"
    /\ UNCHANGED <<r2, disk, dirs, clock, r2cfg, cfgFound, bootWarn>>
    /\ UNCHANGED <<rsVars, migVars, loopVars>>
    /\ UNCHANGED <<hist, procs>>

BootNext ==
    \/ BootGuard
    \/ BootCheckConfig
    \/ BootRestoreConfig
    \/ BootCheckLegacy
    \/ BootRestoreLegacy
    \/ BootSpawnRestore
    \/ MigCheck
    \/ BootOnboard
    \/ BootPatch
    \/ BootStartLoop
    \/ BootGateway

----------------------------------------------------------------------------
(* Background workspace/skills restore (lines 83-99) *)

\* rclone ls PREFIX 2>/dev/null | wc -l: a failed listing counts nothing.
RemoteCount(lsOk, store, pre) ==
    IF lsOk THEN Cardinality(Listing(store, pre, {})) ELSE 0

RsCount(at, copy, next, pre) ==
    /\ rsPc = at
    /\ \E lsOk \in BOOLEAN :
        /\ rsCount' = RemoteCount(lsOk, r2, pre)
        /\ rsPc' = IF rsCount' > 0 THEN copy ELSE next
    /\ UNCHANGED <<r2, disk, dirs, clock, r2cfg>>
    /\ UNCHANGED <<bootVars, migVars, loopVars>>
    /\ UNCHANGED <<hist, procs>>

\* mkdir -p dir; rclone copy ... || echo WARNING
RsCopy(at, next, made, okOutcomes, failOutcomes) ==
    /\ rsPc = at
    /\ dirs' = dirs \cup made
    /\ \E ok \in BOOLEAN :
        /\ disk' \in (IF ok THEN okOutcomes ELSE failOutcomes)
        /\ bootWarn' = (bootWarn \/ ~ok)
    /\ rsPc' = next
    /\ UNCHANGED <<r2, clock, r2cfg, bootPc, cfgFound, gateway, rsCount>>
    /\ UNCHANGED <<migVars, loopVars>>
    /\ UNCHANGED <<hist, procs>>

RsWsOutcomes(ok, store, fs) ==
    CopyOutcomes(ok, store, R2Workspace, fs, WORKSPACE_DIR, {})
RsSkOutcomes(ok, store, fs) ==
    CopyOutcomes(ok, store, R2Skills, fs, SKILLS_DIR, {})

\* Lines 84-85.
RsCountWs == RsCount("count_ws", "copy_ws", "count_sk", R2Workspace)
\* Lines 86-89.
RsCopyWs ==
    RsCopy("copy_ws", "count_sk", {WORKSPACE_DIR},
           RsWsOutcomes(TRUE, r2, disk), RsWsOutcomes(FALSE, r2, disk))
\* Lines 92-93.
RsCountSk == RsCount("count_sk", "copy_sk", "done", R2Skills)
\* Lines 94-97.
RsCopySk ==
    RsCopy("copy_sk", "done", {WORKSPACE_DIR, SKILLS_DIR},
           RsSkOutcomes(TRUE, r2, disk), RsSkOutcomes(FALSE, r2, disk))

RsNext ==
    \/ RsCountWs
    \/ RsCopyWs
    \/ RsCountSk
    \/ RsCopySk

MigNext ==
    \/ MigCopyWs
    \/ MigCopySk
    \/ MigPurgeWs
    \/ MigPurgeSk
    \/ MigWriteMarker

----------------------------------------------------------------------------
(* Background sync loop (lines 347-401) *)

PullWsExcl  == { <<"dir", "skills">>, <<"dir", ".git">>, <<"dir", "node_modules">> }
FindWsExcl  == { <<"dir", "node_modules">>, <<"dir", ".git">> }
\* The config push without its workspace/** and skills/** excludes.
PushCfgExcl_NoTrees ==
    { <<"ext", "lock">>, <<"ext", "log">>, <<"ext", "tmp">>, <<"dir", ".git">> }
PushCfgExcl == { <<"ext", "lock">>, <<"ext", "log">>, <<"ext", "tmp">>,
                 <<"dir", ".git">>, <<"dir", "workspace">>, <<"dir", "skills">> }
PushWsExcl  == { <<"dir", "skills">>, <<"dir", ".git">>, <<"dir", "node_modules">> }

\* The test as "not older than the reference file".
Newer_OrSame(mtime, ref) == mtime >= ref

\* find -newer: modified more recently than the reference file.
Newer(mtime, ref) == mtime > ref

\* find ROOT -newer MARKER [-not -path ...] -type f -printf '%P\n'; each line
\* is kept with the tree it came from and the mtime find saw.
FindNewer(fs, root, ref, excl) ==
    { [root |-> root, rel |-> Rel(p, root), mtime |-> fs[p]] :
        p \in { q \in DOMAIN fs :
                  /\ IsUnder(q, root)
                  /\ fs[q] # Absent
                  /\ Newer(fs[q], ref)
                  /\ ~Excluded(Rel(q, root), excl) } }

\* The test written with -ge.
ShouldPush_Always(count) == count >= 0

\* if [ "$COUNT" -gt 0 ]
ShouldPush(count) == count > 0

\* Lines 350-352: the subshell creates the marker before its first sleep.
LoopStart ==
    /\ loopPc = "start"
    /\ marker' = clock
    /\ loopPc' = "sleep"
    /\ UNCHANGED <<r2, disk, dirs, clock, r2cfg, lastSync, changed, det, steps,
                   cycleErrs, failed>>
    /\ UNCHANGED <<bootVars, rsVars, migVars>>
    /\ UNCHANGED <<hist, procs>>

\* Line 355: sleep 30 opens a cycle.
LoopSleep ==
    /\ loopPc = "sleep"
    /\ loopPc' = "pull_ws"
    /\ steps' = <<>>
    /\ cycleErrs' = 0
    /\ failed' = {}
    /\ UNCHANGED <<r2, disk, dirs, clock, r2cfg, marker, lastSync, changed, det>>
    /\ UNCHANGED <<bootVars, rsVars, migVars>>
    /\ UNCHANGED <<hist, procs>>

\* One rclone copy of the pull, guarded by [ -d dir ]; stderr goes to the log.
LoopPull(at, next, dir, okOutcomes, failOutcomes) ==
    /\ loopPc = at
    /\ IF dir \in dirs
       THEN \E ok \in BOOLEAN :
              /\ disk' \in (IF ok THEN okOutcomes ELSE failOutcomes)
              /\ cycleErrs' = cycleErrs + (IF ok THEN 0 ELSE 1)
              /\ failed' = (IF ok THEN failed ELSE failed \cup {at})
              /\ steps' = Append(steps, at)
       ELSE UNCHANGED <<disk, cycleErrs, failed, steps>>
    /\ loopPc' = next
    /\ UNCHANGED <<r2, dirs, clock, r2cfg, marker, lastSync, changed, det>>
    /\ UNCHANGED <<bootVars, rsVars, migVars>>
    /\ UNCHANGED procs
    /\ hist' = [hist EXCEPT !.uploaded = { k \in @ : disk'[LocalOf(k)] # r2[k] }]

\* The workspace pull done with rclone sync.
PullWsOutcomes_Sync(ok, store, fs) ==
    SyncOutcomes(ok, store, R2Workspace, fs, WORKSPACE_DIR, PullWsExcl)

PullWsOutcomes(ok, store, fs) ==
    CopyOutcomes(ok, store, R2Workspace, fs, WORKSPACE_DIR, PullWsExcl)
PullSkOutcomes(ok, store, fs) ==
    CopyOutcomes(ok, store, R2Skills, fs, SKILLS_DIR, {})

\* Lines 361-364.
LoopPullWs ==
    LoopPull("pull_ws", "pull_sk", WORKSPACE_DIR,
             PullWsOutcomes(TRUE, r2, disk), PullWsOutcomes(FALSE, r2, disk))
\* Lines 365-368.
LoopPullSk ==
    LoopPull("pull_sk", "find_cfg", SKILLS_DIR,
             PullSkOutcomes(TRUE, r2, disk), PullSkOutcomes(FALSE, r2, disk))

\* Line 373: the first find of the group truncates and fills CHANGED.
LoopFindCfg ==
    /\ loopPc = "find_cfg"
    /\ det' = [marker |-> marker, lastSync |-> lastSync]
    /\ changed' = FindNewer(disk, CONFIG_DIR, marker, {})
    /\ steps' = Append(steps, "find_cfg")
    /\ loopPc' = "find_ws"
    /\ UNCHANGED <<r2, disk, dirs, clock, r2cfg, marker, lastSync, cycleErrs, failed>>
    /\ UNCHANGED <<bootVars, rsVars, migVars>>
    /\ UNCHANGED procs
    /\ hist' = [hist EXCEPT !.created = { p \in @ : ~IsUnder(p, CONFIG_DIR) }]

\* The second find followed by another pull instead of the count.
LoopFindWs_ThenPull ==
    /\ loopPc = "find_ws"
    /\ changed' = changed \cup FindNewer(disk, WORKSPACE_DIR, marker, FindWsExcl)
    /\ steps' = Append(steps, "find_ws")
    /\ loopPc' = "pull_ws"
    /\ UNCHANGED <<r2, disk, dirs, clock, r2cfg, marker, lastSync, det, cycleErrs, failed>>
    /\ UNCHANGED <<bootVars, rsVars, migVars>>
    /\ UNCHANGED procs
    /\ hist' = [hist EXCEPT !.created = { p \in @ : ~IsUnder(p, WORKSPACE_DIR) }]

\* Lines 374-377: the second find appends; the skills tree lies below
\* WORKSPACE_DIR and is searched with it.
LoopFindWs ==
    /\ loopPc = "find_ws"
    /\ changed' = changed \cup FindNewer(disk, WORKSPACE_DIR, marker, FindWsExcl)
    /\ steps' = Append(steps, "find_ws")
    /\ loopPc' = "count"
    /\ UNCHANGED <<r2, disk, dirs, clock, r2cfg, marker, lastSync, det, cycleErrs, failed>>
    /\ UNCHANGED <<bootVars, rsVars, migVars>>
    /\ UNCHANGED procs
    /\ hist' = [hist EXCEPT !.created = { p \in @ : ~IsUnder(p, WORKSPACE_DIR) }]

\* Lines 380-383: COUNT=$(wc -l < CHANGED); push only when it is positive.
LoopCount ==
    /\ loopPc = "count"
    /\ loopPc' = IF ShouldPush(Cardinality(changed)) THEN "sync_cfg" ELSE "sleep"
    /\ UNCHANGED <<r2, disk, dirs, clock, r2cfg, marker, lastSync, changed, det,
                   steps, cycleErrs, failed>>
    /\ UNCHANGED <<bootVars, rsVars, migVars>>
    /\ UNCHANGED <<hist, procs>>

\* The sync followed by `|| continue`: a failed mirror ends the cycle.
LoopSync_Abort(at, next, guard, okOutcomes, failOutcomes) ==
    /\ loopPc = at
    /\ IF guard
       THEN \E ok \in BOOLEAN :
              /\ r2' \in (IF ok THEN okOutcomes ELSE failOutcomes)
              /\ cycleErrs' = cycleErrs + (IF ok THEN 0 ELSE 1)
              /\ failed' = (IF ok THEN failed ELSE failed \cup {at})
              /\ steps' = Append(steps, at)
              /\ loopPc' = (IF ok THEN next ELSE "sleep")
       ELSE loopPc' = next /\ UNCHANGED <<r2, cycleErrs, failed, steps>>
    /\ UNCHANGED <<disk, dirs, clock, r2cfg, marker, lastSync, changed, det>>
    /\ UNCHANGED <<bootVars, rsVars, migVars>>
    /\ UNCHANGED <<hist, procs>>

\* One rclone sync of the push; stderr goes to the log.
LoopSync(at, next, guard, okOutcomes, failOutcomes) ==
    /\ loopPc = at
    /\ IF guard
       THEN \E ok \in BOOLEAN :
              /\ r2' \in (IF ok THEN okOutcomes ELSE failOutcomes)
              /\ cycleErrs' = cycleErrs + (IF ok THEN 0 ELSE 1)
              /\ failed' = (IF ok THEN failed ELSE failed \cup {at})
              /\ steps' = Append(steps, at)
       ELSE UNCHANGED <<r2, cycleErrs, failed, steps>>
    /\ loopPc' = next
    /\ UNCHANGED <<disk, dirs, clock, r2cfg, marker, lastSync, changed, det>>
    /\ UNCHANGED <<bootVars, rsVars, migVars>>
    /\ UNCHANGED <<hist, procs>>

PushCfgOutcomes(ok, fs, store) ==
    SyncOutcomes(ok, fs, CONFIG_DIR, store, R2Config, PushCfgExcl)
PushWsOutcomes(ok, fs, store) ==
    SyncOutcomes(ok, fs, WORKSPACE_DIR, store, R2Workspace, PushWsExcl)
PushSkOutcomes(ok, fs, store) ==
    SyncOutcomes(ok, fs, SKILLS_DIR, store, R2Skills, {})

\* Lines 384-385.
LoopSyncCfg ==
    LoopSync("sync_cfg", "sync_ws", TRUE,
             PushCfgOutcomes(TRUE, disk, r2), PushCfgOutcomes(FALSE, disk, r2))
\* The lines of the change set that lie in the workspace tree proper, and
\* those that lie in the skills tree.
WsChanges(set) ==
    { e \in set : e.root = WORKSPACE_DIR /\ e.rel[1] # "skills" }
SkChanges(set) ==
    { e \in set : e.root = WORKSPACE_DIR /\ e.rel[1] = "skills" }

\* The workspace mirror run only when the workspace has a changed file.
LoopSyncWs_OwnChanges ==
    LoopSync("sync_ws", "sync_sk",
             WORKSPACE_DIR \in dirs /\ WsChanges(changed) # {},
             PushWsOutcomes(TRUE, disk, r2), PushWsOutcomes(FALSE, disk, r2))

\* Lines 386-389.
LoopSyncWs ==
    LoopSync("sync_ws", "sync_sk", WORKSPACE_DIR \in dirs,
             PushWsOutcomes(TRUE, disk, r2), PushWsOutcomes(FALSE, disk, r2))
\* Lines 390-393.
LoopSyncSk ==
    LoopSync("sync_sk", "record", SKILLS_DIR \in dirs,
             PushSkOutcomes(TRUE, disk, r2), PushSkOutcomes(FALSE, disk, r2))

\* Line 394: date -Iseconds > "$LAST_SYNC_FILE".
LoopRecord ==
    /\ loopPc = "record"
    /\ lastSync' = clock
    /\ steps' = Append(steps, "record")
    /\ loopPc' = "touch"
    /\ UNCHANGED <<r2, disk, dirs, clock, r2cfg, marker, changed, det, cycleErrs, failed>>
    /\ UNCHANGED <<bootVars, rsVars, migVars>>
    /\ UNCHANGED <<hist, procs>>

\* Lines 395-396: touch "$MARKER".
LoopTouch ==
    /\ loopPc = "touch"
    /\ marker' = clock
    /\ steps' = Append(steps, "touch")
    /\ loopPc' = "sleep"
    /\ UNCHANGED <<r2, disk, dirs, clock, r2cfg, lastSync, changed, det, cycleErrs, failed>>
    /\ UNCHANGED <<bootVars, rsVars, migVars>>
    /\ UNCHANGED procs
    /\ hist' = [hist EXCEPT !.created = {}]

LoopNext ==
    \/ LoopStart
    \/ LoopSleep
    \/ LoopPullWs
    \/ LoopPullSk
    \/ LoopFindCfg
    \/ LoopFindWs
    \/ LoopCount
    \/ LoopSyncCfg
    \/ LoopSyncWs
    \/ LoopSyncSk
    \/ LoopRecord
    \/ LoopTouch

----------------------------------------------------------------------------
(* What runs beside the script: time, and the gateway and its agents writing
   and deleting files in the managed trees *)

Tick ==
    /\ clock < MaxClock
    /\ clock' = clock + 1
    /\ UNCHANGED <<r2, disk, dirs, r2cfg>>
    /\ UNCHANGED <<bootVars, rsVars, migVars, loopVars>>
    /\ UNCHANGED <<hist, procs>>

\* The directories a path lies in, among the two the script tests with -d.
DirsOf(p) == { d \in {WORKSPACE_DIR, SKILLS_DIR} : IsUnder(p, d) }

LocalPaths == { CONFIG_FILE, WORKSPACE_DIR \o <<"a.md">>, SKILLS_DIR \o <<"s.md">> }

LocalWrite(p) ==
    /\ gateway
    /\ disk[p] # clock
    /\ disk' = [disk EXCEPT ![p] = clock]
    /\ dirs' = dirs \cup DirsOf(p)
    /\ UNCHANGED <<r2, clock, r2cfg>>
    /\ UNCHANGED <<bootVars, rsVars, migVars, loopVars>>
    /\ UNCHANGED procs
    /\ hist' = [hist EXCEPT
                 !.created = IF disk[p] = Absent /\ marker # Absent /\ clock > marker
                             THEN @ \cup {p} ELSE @,
                 !.deleted = @ \ {p}]

LocalDelete(p) ==
    /\ gateway
    /\ disk[p] # Absent
    /\ disk' = [disk EXCEPT ![p] = Absent]
    /\ UNCHANGED <<r2, dirs, clock, r2cfg>>
    /\ UNCHANGED <<bootVars, rsVars, migVars, loopVars>>
    /\ UNCHANGED procs
    /\ hist' = [hist EXCEPT
                 !.created = @ \ {p},
                 !.deleted = IF r2[R2Of(p)] # Absent /\ R2Of(p) \notin hist.uploaded
                             THEN @ \cup {p} ELSE @]

\* An object uploaded into the bucket from outside (wrangler, the API).
UploadKeys == { R2Workspace \o <<"a.md">>, R2Skills \o <<"s.md">> }

ExternalUpload(k) ==
    /\ r2[k] # clock
    /\ r2' = [r2 EXCEPT ![k] = clock]
    /\ UNCHANGED <<disk, dirs, clock, r2cfg>>
    /\ UNCHANGED <<bootVars, rsVars, migVars, loopVars>>
    /\ UNCHANGED procs
    /\ hist' = [hist EXCEPT
                 !.uploaded = @ \cup {k},
                 !.created = @ \ {LocalOf(k)},
                 !.deleted = @ \ {LocalOf(k)}]

----------------------------------------------------------------------------
(* One invocation of the script *)

\* The bucket the container boots on: a current-namespace backup (config and
\* a workspace file) beside what is left of the legacy layout (config and a
\* skills file), the migration not yet done.
BootBucket ==
    [k \in R2Keys |->
        IF k \in {R2ConfigFile, R2Workspace \o <<"a.md">>,
                  R2LegacyFile, R2LegacySk \o <<"s.md">>}
        THEN 0 ELSE Absent]

Init ==
    /\ clock = 0
    /\ r2 = BootBucket
    /\ snap = r2
    /\ disk = [p \in DiskPaths |-> Absent]
    /\ dirs = {}
    /\ r2cfg \in BOOLEAN
    /\ gateway \in BOOLEAN
    /\ bootPc = "guard"
    /\ cfgFound = "pending"
    /\ bootWarn = FALSE
    /\ rsPc = "off"
    /\ rsCount = 0
    /\ migPc = "off"
    /\ mig = NoMig
    /\ run = 1
    /\ loopPc = "off"
    /\ marker = Absent
    /\ lastSync = Absent
    /\ changed = {}
    /\ det = [marker |-> Absent, lastSync |-> Absent]
    /\ steps = <<>>
    /\ cycleErrs = 0
    /\ failed = {}
    /\ hist = NoHist
    /\ procs = NoProcs

\* Both background jobs of the boot have ended, or were never launched.
BackgroundQuiet == rsPc \in {"off", "done"} /\ migPc \in {"off", "done"}

\* Time passing at any point of the boot, and the gateway rewriting its
\* configuration once the background jobs are over.
EnvNext ==
    \/ Tick
    \/ BackgroundQuiet /\ LocalWrite(CONFIG_FILE)

Next ==
    \/ BootNext
    \/ RsNext
    \/ MigNext
    \/ LoopNext
    \/ EnvNext

Spec == Init /\ [][Next]_vars

----------------------------------------------------------------------------
(* The sync loop on its own, from the states boot can leave behind: the
   config backed up, a skills file on either side or both, the workspace
   still empty (agents and uploads fill it as the loop runs) *)

InitLoop ==
    /\ clock = 0
    /\ r2 \in { f \in [R2Keys -> {Absent, 0}] :
                  /\ f[R2ConfigFile] = 0
                  /\ \A k \in R2Keys \ {R2ConfigFile, R2Skills \o <<"s.md">>} :
                        f[k] = Absent }
    /\ snap = r2
    /\ dirs \in { {}, {WORKSPACE_DIR}, {WORKSPACE_DIR, SKILLS_DIR} }
    /\ disk \in { f \in [DiskPaths -> {Absent, 0}] :
                  /\ f[CONFIG_FILE] = 0
                  /\ \A p \in DiskPaths \ {CONFIG_FILE, SKILLS_DIR \o <<"s.md">>} :
                        f[p] = Absent
                  /\ \A p \in LocalPaths : f[p] # Absent => DirsOf(p) \subseteq dirs }
    /\ r2cfg = TRUE
    /\ gateway = TRUE
    /\ bootPc = "gateway"
    /\ cfgFound = "fresh"
    /\ bootWarn = FALSE
    /\ rsPc = "done"
    /\ rsCount = 0
    /\ migPc = "off"
    /\ mig = NoMig
    /\ run = 1
    /\ loopPc = "start"
    /\ marker = Absent
    /\ lastSync = Absent
    /\ changed = {}
    /\ det = [marker |-> Absent, lastSync |-> Absent]
    /\ steps = <<>>
    /\ cycleErrs = 0
    /\ failed = {}
    /\ hist = NoHist
    /\ procs = NoProcs

\* The gateway rewrites its configuration; an agent writes and deletes a
\* workspace file; the same file is uploaded into the bucket from outside.
EnvLoop ==
    \/ Tick
    \/ \E p \in {CONFIG_FILE, WORKSPACE_DIR \o <<"a.md">>} : LocalWrite(p)
    \/ LocalDelete(WORKSPACE_DIR \o <<"a.md">>)
    \/ ExternalUpload(R2Workspace \o <<"a.md">>)

NextLoop ==
    \/ LoopNext
    \/ EnvLoop

SpecLoop == InitLoop /\ [][NextLoop]_vars

----------------------------------------------------------------------------
(* The config restore and the config-root mirror on their own, over every
   content of the bucket's config namespace and of the local config root *)

InitFrame ==
    /\ clock = MaxClock
    /\ r2 \in { f \in [R2Keys -> {Absent, 0}] :
                  f[R2LegacyWs \o <<"a.md">>] = Absent
                  /\ f[R2LegacySk \o <<"s.md">>] = Absent }
    /\ snap = r2
    /\ disk \in { f \in [DiskPaths -> {Absent, MaxClock}] :
                  \A p \in DiskPaths : IsUnder(p, WORKSPACE_DIR) => f[p] = Absent }
    /\ dirs = {}
    /\ r2cfg = TRUE
    /\ cfgFound = "pending"
    /\ bootWarn = FALSE
    /\ rsPc = "off"
    /\ rsCount = 0
    /\ migPc = "off"
    /\ mig = NoMig
    /\ run = 1
    /\ lastSync = Absent
    /\ cycleErrs = 0
    /\ failed = {}
    /\ hist = NoHist
    /\ procs = NoProcs
    /\ \/ \* the main shell about to restore the config
          /\ \/ bootPc = "cp_config" /\ r2[R2ConfigFile] # Absent
             \/ bootPc = "cp_legacy" /\ r2[R2LegacyFile] # Absent
          /\ gateway = FALSE
          /\ loopPc = "off"
          /\ marker = Absent
          /\ det = [marker |-> Absent, lastSync |-> Absent]
          /\ changed = {}
          /\ steps = <<>>
       \/ \* the loop about to mirror the config root
          /\ bootPc = "gateway"
          /\ gateway = TRUE
          /\ loopPc = "sync_cfg"
          /\ marker = 0
          /\ det = [marker |-> 0, lastSync |-> Absent]
          /\ changed = FindNewer(disk, CONFIG_DIR, marker, {})
          /\ changed # {}
          /\ steps = <<"find_cfg", "find_ws">>

NextFrame ==
    \/ BootRestoreConfig
    \/ BootRestoreLegacy
    \/ LoopSyncCfg

SpecFrame == InitFrame /\ [][NextFrame]_vars

----------------------------------------------------------------------------
(* The migration subshell still running while the sync loop cycles: the
   bucket holds a legacy workspace file, and an agent writes the file of the
   same name into the local workspace *)

InitRace ==
    /\ clock = 0
    /\ r2 = [k \in R2Keys |->
               IF k \in {R2ConfigFile, R2LegacyWs \o <<"a.md">>} THEN 0 ELSE Absent]
    /\ snap = r2
    /\ dirs = {WORKSPACE_DIR}
    /\ disk = [p \in DiskPaths |-> IF p = CONFIG_FILE THEN 0 ELSE Absent]
    /\ r2cfg = TRUE
    /\ gateway = TRUE
    /\ bootPc = "gateway"
    /\ cfgFound = "current"
    /\ bootWarn = FALSE
    /\ rsPc = "done"
    /\ rsCount = 0
    /\ migPc = "copy_ws"
    /\ mig = NoMig
    /\ run = 1
    /\ loopPc = "start"
    /\ marker = Absent
    /\ lastSync = Absent
    /\ changed = {}
    /\ det = [marker |-> Absent, lastSync |-> Absent]
    /\ steps = <<>>
    /\ cycleErrs = 0
    /\ failed = {}
    /\ hist = NoHist
    /\ procs = NoProcs

NextRace ==
    \/ MigNext
    \/ LoopNext
    \/ Tick
    \/ LocalWrite(WORKSPACE_DIR \o <<"a.md">>)

SpecRace == InitRace /\ [][NextRace]_vars

----------------------------------------------------------------------------
(* The migration runner when the container can be stopped while the subshell
   of lines 106-114 is between two of its commands *)

\* The subshell has been launched and has not yet written the marker.
MigRunning == migPc \in {"copy_ws", "copy_sk", "purge_ws", "purge_sk", "rcat"}

\* The container is stopped mid-migration and the script boots again; a
\* command cut short has acted as one of its failure outcomes.
MigKill ==
    /\ MigRunning
    /\ run < MaxRuns
    /\ run' = run + 1
    /\ snap' = r2
    /\ bootPc' = "ck_marker"
    /\ migPc' = "off"
    /\ mig' = NoMig
    /\ UNCHANGED <<r2, disk, dirs, clock, r2cfg, gateway, cfgFound, bootWarn>>
    /\ UNCHANGED <<rsVars, loopVars>>
    /\ UNCHANGED <<hist, procs>>

NextKill ==
    \/ NextMigration
    \/ MigKill

SpecKill == InitMigration /\ [][NextKill]_vars

----------------------------------------------------------------------------
(* The sync loop scheduled for ever, beside the gateway that rewrites its
   configuration and an agent that writes one workspace file *)

\* A file that the push mirror of its tree does not exclude.
Mirrorable(p) ==
    IF IsUnder(p, SKILLS_DIR) THEN TRUE
    ELSE IF IsUnder(p, WORKSPACE_DIR)
         THEN ~Excluded(Rel(p, WORKSPACE_DIR), PushWsExcl)
         ELSE ~Excluded(Rel(p, CONFIG_DIR), PushCfgExcl)

\* Each remote prefix holds the current content of every such file.
Mirrored ==
    \A p \in DOMAIN disk :
        (disk[p] # Absent /\ Mirrorable(p)) => r2[R2Of(p)] = disk[p]

\* The loop is launched on local trees that the bucket mirrors already.
InitSettle == InitLoop /\ Mirrored

NextSettle ==
    \/ LoopNext
    \/ Tick
    \/ \E p \in {CONFIG_FILE, WORKSPACE_DIR \o <<"a.md">>} : LocalWrite(p)

\* while true; do sleep 30; ... done: the loop always takes its next step.
SpecSettle == InitSettle /\ [][NextSettle]_vars /\ WF_vars(LoopNext)

----------------------------------------------------------------------------
(* Several invocations of the start script in one container: the guard of
   lines 13-16, the launch of the loop and the exec of the gateway *)

\* pgrep -f "openclaw gateway": some invocation has become the gateway.
GatewayAlive(inv) == \E j \in Invocations : inv[j] = "gateway"

\* What an invocation leaves alone: everything but the process table and the
\* pgrep result.
GuardFrame ==
    /\ UNCHANGED <<r2, disk, dirs, clock, r2cfg, bootPc, cfgFound, bootWarn>>
    /\ UNCHANGED <<rsVars, migVars, loopVars>>
    /\ UNCHANGED hist

\* The script is run (again).
InvStart(i) ==
    /\ procs.inv[i] = "idle"
    /\ procs' = [procs EXCEPT !.inv[i] = "guard"]
    /\ UNCHANGED gateway
    /\ GuardFrame

\* Lines 13-16: exit 0 when a gateway process is found.
InvGuard(i) ==
    /\ procs.inv[i] = "guard"
    /\ procs' = [procs EXCEPT !.inv[i] = IF gateway THEN "exited" ELSE "boot"]
    /\ UNCHANGED gateway
    /\ GuardFrame

\* Lines 18-401: the boot, at the end of which ( ... ) & launches a sync loop
\* when R2 is configured.
InvStartLoop(i) ==
    /\ procs.inv[i] = "boot"
    /\ procs' = [procs EXCEPT !.inv[i] = "start_gateway",
                               !.loops = IF r2cfg THEN @ \cup {i} ELSE @]
    /\ UNCHANGED gateway
    /\ GuardFrame

\* Lines 416-422: exec replaces the shell by the gateway; the loop stays.
InvExec(i) ==
    /\ procs.inv[i] = "start_gateway"
    /\ procs' = [procs EXCEPT !.inv[i] = "gateway"]
    /\ gateway' = TRUE
    /\ GuardFrame

\* The gateway dies; its background loop (while true, no trap, no wait) is
\* not ended by the script.
GatewayExit(i) ==
    /\ procs.inv[i] = "gateway"
    /\ procs' = [procs EXCEPT !.inv[i] = "dead"]
    /\ gateway' = GatewayAlive(procs'.inv)
    /\ GuardFrame

InitGuard ==
    /\ clock = 0
    /\ r2 = [k \in R2Keys |-> Absent]
    /\ snap = r2
    /\ disk = [p \in DiskPaths |-> Absent]
    /\ dirs = {}
    /\ r2cfg \in BOOLEAN
    /\ gateway = FALSE
    /\ bootPc = "guard"
    /\ cfgFound = "pending"
    /\ bootWarn = FALSE
    /\ rsPc = "off"
    /\ rsCount = 0
    /\ migPc = "off"
    /\ mig = NoMig
    /\ run = 1
    /\ loopPc = "off"
    /\ marker = Absent
    /\ lastSync = Absent
    /\ changed = {}
    /\ det = [marker |-> Absent, lastSync |-> Absent]
    /\ steps = <<>>
    /\ cycleErrs = 0
    /\ failed = {}
    /\ hist = NoHist
    /\ procs = NoProcs

NextGuard ==
    \E i \in Invocations :
        \/ InvStart(i)
        \/ InvGuard(i)
        \/ InvStartLoop(i)
        \/ InvExec(i)
        \/ GatewayExit(i)

SpecGuard == InitGuard /\ [][NextGuard]_vars

----------------------------------------------------------------------------
(* Migration claims *)

LegacyObjects(store) ==
    Listing(store, R2LegacyWs, {}) \cup Listing(store, R2LegacySk, {})
CurrentObjects(store) ==
    Listing(store, R2Workspace, {}) \cup Listing(store, R2Skills, {})
\* The current-namespace key a legacy object is relocated to.
Relocated(k) == R2Config \o k
\* Objects below the legacy and current prefixes, and the marker, by presence.
Present(store) == { k \in MigKeys : store[k] # Absent }

\* C5 (as stated): if the marker object is in the bucket when the migration
\* runner is invoked, the invocation runs no copy, no purge and no marker write.
C5_MarkerPresentNoMutation == mig.atCheck => migPc = "off"

\* C6 (as stated): if a copy or a purge of the migration fails, this
\* invocation does not write the marker.
C6_FailedStepNoMarker == (migPc = "done" /\ mig.failed) => ~mig.wrote

\* The scenario of C7: both legacy prefixes hold objects, the current
\* prefixes are empty and there is no marker.
C7_Scenario(store) ==
    /\ Listing(store, R2LegacyWs, {}) # {}
    /\ Listing(store, R2LegacySk, {}) # {}
    /\ CurrentObjects(store) = {}
    /\ store[R2Marker] = Absent

\* C7: from that scenario, a run whose steps all succeed ends with every
\* legacy object under its current-namespace key, both legacy prefixes empty
\* and the marker present.
C7_MigrationRelocates ==
    (migPc = "done" /\ ~mig.failed /\ mig.wrote /\ C7_Scenario(snap)) =>
        /\ \A k \in LegacyObjects(snap) : r2[Relocated(k)] = snap[k]
        /\ LegacyObjects(r2) = {}
        /\ r2[R2Marker] # Absent

C7_Witness ==
    /\ migPc = "done" /\ ~mig.failed /\ mig.wrote /\ C7_Scenario(snap)
    /\ CurrentObjects(r2) # {}

----------------------------------------------------------------------------
(* Sync loop claims *)

CycleOrder ==
    <<"pull_ws", "pull_sk", "find_cfg", "find_ws",
      "sync_cfg", "sync_ws", "sync_sk", "record", "touch">>
StepPos(s) == CHOOSE i \in 1..Len(CycleOrder) : CycleOrder[i] = s
Ran == { steps[i] : i \in 1..Len(steps) }
PushSteps == {"sync_cfg", "sync_ws", "sync_sk"}
\* The cycle that logged steps is over: it updated the marker, or it found
\* nothing and skipped.
CycleOver ==
    \/ steps = <<>>
    \/ steps[Len(steps)] = "touch"
    \/ steps[Len(steps)] = "find_ws" /\ changed = {}

\* C1: the steps a cycle has run are in the order pull, detection, push,
\* marker update, none of them twice; nothing is pushed before both finds
\* have run; and the loop is back at its sleep, from where the next cycle's
\* pull starts, only when the cycle has updated the marker or skipped.
C1_CycleInOrder ==
    /\ \A i, j \in 1..Len(steps) :
          i < j => StepPos(steps[i]) < StepPos(steps[j])
    /\ Ran \cap (PushSteps \cup {"record", "touch"}) # {} =>
          {"find_cfg", "find_ws"} \subseteq Ran
    /\ loopPc \in {"pull_ws", "pull_sk"} => Ran \subseteq {"pull_ws"}
    /\ loopPc = "sleep" => CycleOver

C1_Witness ==
    /\ loopPc = "sleep"
    /\ {"pull_ws", "pull_sk", "find_ws", "sync_ws", "sync_sk", "touch"} \subseteq Ran

\* C2: once detection has ended with an empty change set, the cycle runs no
\* rclone sync, leaves the marker and the last-sync file as detection found
\* them, and goes from the count straight back to the sleep.
C2_EmptySetSkips ==
    ("find_ws" \in Ran /\ changed = {}) =>
        /\ Ran \cap (PushSteps \cup {"record", "touch"}) = {}
        /\ marker = det.marker
        /\ lastSync = det.lastSync
        /\ loopPc \in {"count", "sleep"}

C2_Witness ==
    /\ "find_ws" \in Ran /\ changed = {} /\ loopPc = "sleep"
    /\ lastSync # Absent
    /\ \E p \in DOMAIN disk : disk[p] # Absent /\ disk[p] = marker

\* C3: every entry of the change set has a modification time strictly later
\* than the marker had when detection started.
C3_StrictlyNewer == \A e \in changed : e.mtime > det.marker

C3_Witness ==
    /\ loopPc = "count" /\ changed # {}
    /\ \E p \in DOMAIN disk :
          /\ disk[p] # Absent /\ disk[p] = det.marker
          /\ \A e \in changed : e.root \o e.rel # p

\* A pull step of the loop is taken.
PullStep == loopPc \in {"pull_ws", "pull_sk"} /\ loopPc' # loopPc
\* What a further, successful run of the same pull would leave.
PullAgain(at, store, fs) ==
    IF at = "pull_ws" THEN PullWsOutcomes(TRUE, store, fs)
    ELSE PullSkOutcomes(TRUE, store, fs)

\* C4: a pull step removes no local file, whether or not the bucket holds
\* it, and after a pull that succeeded a second run of it against the same
\* bucket leaves the local tree exactly as the first run left it.
C4_PullAdditive ==
    [][PullStep =>
        /\ \A p \in DOMAIN disk : disk[p] # Absent => disk'[p] # Absent
        /\ (steps' # steps /\ cycleErrs' = cycleErrs) =>
              PullAgain(loopPc, r2', disk') = {disk'}]_vars

C4_Witness ==
    /\ loopPc = "pull_sk" /\ Ran = {"pull_ws"} /\ cycleErrs = 0
    /\ disk[WORKSPACE_DIR \o <<"a.md">>] # Absent
    /\ r2[R2Workspace \o <<"a.md">>] = Absent

InChangeSet(p, set) == \E e \in set : e.root \o e.rel = p

\* C12 (as stated): a file created locally after the marker is in the change
\* set of the next detection that searches its tree; the marker moves only at
\* the end of a push, to a time not earlier than any detected change; and at
\* that moment no file is newer than the marker, so that a following cycle
\* over an unchanged tree detects nothing.
C12_CreatedFileDetected ==
    [][/\ (loopPc = "find_cfg" /\ loopPc' = "find_ws") =>
             \A p \in hist.created :
                 IsUnder(p, CONFIG_DIR) => InChangeSet(p, changed')
       /\ (loopPc = "find_ws" /\ loopPc' = "count") =>
             \A p \in hist.created :
                 IsUnder(p, WORKSPACE_DIR) => InChangeSet(p, changed')
       /\ (marker # Absent /\ marker' # marker) =>
             /\ loopPc = "touch" /\ "sync_cfg" \in Ran
             /\ \A e \in changed : marker' >= e.mtime
       /\ (loopPc = "touch" /\ loopPc' = "sleep") =>
             \A p \in DOMAIN disk : disk[p] <= marker'
      ]_vars

\* C15 (as stated): a file an agent deleted while the bucket held it stays
\* deleted locally: the loop does not bring it back.
C15_DeletedStaysDeleted == \A p \in hist.deleted : disk[p] = Absent

\* C16 (as stated): an object uploaded into the bucket from outside is still
\* there until a pull has brought it into the local tree.
C16_UploadSurvives == \A k \in hist.uploaded : r2[k] # Absent

\* C17 (as stated): the workspace mirror runs only in a cycle whose change
\* set has a workspace file, the skills mirror only in one whose change set
\* has a skills file.
C17_OwnChangeSetOnly ==
    /\ "sync_ws" \in Ran => WsChanges(changed) # {}
    /\ "sync_sk" \in Ran => SkChanges(changed) # {}

\* C17 (amended): a cycle pushes exactly when its change set is non-empty,
\* and a pushing cycle mirrors the config root always, the workspace tree
\* exactly when its directory exists and the skills tree exactly when its
\* directory exists, whichever tree the changed files are in.
C17_MirrorsEveryTree ==
    [][/\ (loopPc = "count" /\ loopPc' # loopPc) =>
             (loopPc' = "sync_cfg" <=> changed # {})
       /\ (loopPc = "sync_cfg" /\ loopPc' # loopPc) => "sync_cfg" \in Ran'
       /\ (loopPc = "sync_ws" /\ loopPc' # loopPc) =>
             ("sync_ws" \in Ran' <=> WORKSPACE_DIR \in dirs)
       /\ (loopPc = "sync_sk" /\ loopPc' # loopPc) =>
             ("sync_sk" \in Ran' <=> SKILLS_DIR \in dirs)
      ]_vars

C17_Witness ==
    /\ loopPc = "sleep" /\ {"sync_cfg", "sync_ws", "sync_sk", "touch"} \subseteq Ran
    /\ changed # {} /\ \A e \in changed : e.root = CONFIG_DIR

\* C18 (as stated): the last-sync file is overwritten only by the date
\* command at the end of a pushing cycle, and not in a cycle in which a
\* mirror failed.
C18_OnlySuccessRecorded ==
    [][(lastSync' # lastSync) =>
          /\ loopPc = "record" /\ "sync_cfg" \in Ran
          /\ failed \cap PushSteps = {}]_vars

----------------------------------------------------------------------------
(* Boot claims *)

\* C9: when R2 is configured the gateway is started only once the config
\* restore has ended (restored, restored from legacy, or found absent), and
\* once the shell is at the start nothing holds it back, whatever the
\* background restore and the migration are doing.
C9_GatewayAfterConfigOnly ==
    /\ (bootPc \in {"start_gateway", "gateway"} /\ r2cfg) =>
          cfgFound \in {"current", "legacy", "fresh"}
    /\ GatewayReady => ENABLED BootGateway

C9_Witness ==
    /\ bootPc = "gateway" /\ gateway
    /\ rsPc \notin {"off", "done"}
    /\ migPc \notin {"off", "done"}

\* C10: whatever has failed, the main shell always has its next step until
\* the gateway is started (or the guard has found one running), and the sync
\* loop, once launched, always has its next step.
C10_NoFailureStops ==
    /\ bootPc \notin {"gateway", "exited"} => ENABLED BootNext
    /\ loopPc # "off" => ENABLED LoopNext

C10_Witness ==
    /\ bootPc = "gateway" /\ gateway
    /\ bootWarn /\ mig.failed
    /\ loopPc = "sleep" /\ cycleErrs >= 2 /\ "touch" \in Ran

\* C13 (as stated): the legacy namespace is consulted only when the bucket
\* holds no current-namespace config object; with that object absent and the
\* legacy one present the restore ends with the config file on disk; with
\* neither present it ends as a fresh start, without a warning.
C13_LegacyOnlyWhenAbsent ==
    /\ bootPc \in {"ck_legacy", "cp_legacy"} => r2[R2ConfigFile] = Absent
    /\ (bootPc = "spawn_restore" /\ r2[R2ConfigFile] = Absent
           /\ r2[R2LegacyFile] # Absent) =>
          cfgFound = "legacy" /\ disk[CONFIG_FILE] # Absent
    /\ (bootPc = "spawn_restore" /\ r2[R2ConfigFile] = Absent
           /\ r2[R2LegacyFile] = Absent) =>
          cfgFound = "fresh" /\ ~bootWarn

\* C14 (as stated): once the bucket holds the migration marker, no step of
\* the script or of its background jobs removes it, and no step writes it
\* a second time.
C14_MarkerDurable ==
    [][r2[R2Marker] # Absent => r2'[R2Marker] = r2[R2Marker]]_vars

\* Below the workspace/ or skills/ entry of a root.
InTrees(k, root) ==
    IsUnder(k, root \o <<"workspace">>) \/ IsUnder(k, root \o <<"skills">>)

\* C19: the config-root mirror leaves every object below openclaw/workspace/
\* and openclaw/skills/ as it is, whatever the local config root holds, and
\* a config restore writes nothing below workspace/ or skills/ of the local
\* config root.
C19_ConfigLeavesTreesAlone ==
    [][/\ (loopPc = "sync_cfg" /\ loopPc' # loopPc) =>
             \A k \in DOMAIN r2 : InTrees(k, R2Config) => r2'[k] = r2[k]
       /\ (bootPc \in {"cp_config", "cp_legacy"} /\ bootPc' # bootPc) =>
             \A p \in DOMAIN disk : InTrees(p, CONFIG_DIR) => disk'[p] = disk[p]
      ]_vars

C19_Witness ==
    /\ loopPc = "sync_ws" /\ failed = {}
    /\ r2[R2ConfigFile] = disk[CONFIG_FILE]
    /\ disk[CONFIG_DIR \o <<"workspace", "a.md">>] # Absent
    /\ r2[R2Workspace \o <<"a.md">>] = Absent
    /\ r2[R2Skills \o <<"s.md">>] # Absent
    /\ disk[CONFIG_DIR \o <<"skills", "s.md">>] = Absent

\* C20: no step of the migration's relocation changes or removes an object
\* that is already present below openclaw/workspace/ or openclaw/skills/, also
\* when the legacy prefix holds an object with the same relative key.
C20_RelocationKeepsCurrent ==
    [][(migPc \in {"copy_ws", "copy_sk", "purge_ws", "purge_sk"} /\ migPc' # migPc) =>
          \A k \in DOMAIN r2 :
              (InTrees(k, R2Config) /\ r2[k] # Absent) => r2'[k] = r2[k]
      ]_vars

\* C21: once the sync loop has run a change detection or a push mirror, the
\* background workspace/skills restore has finished all of its writes.
C21_RestoreBeforeDetection ==
    (Ran \cap {"find_cfg", "find_ws", "sync_cfg", "sync_ws", "sync_sk"} # {}) =>
        rsPc \in {"off", "done"}

\* C22: the marker is the last remote write of a migration. A migration that
\* is killed after it started and before it finished leaves the marker absent,
\* so that the next boot's check launches the whole relocation again; and the
\* marker is written only by an invocation that has run both copies and both
\* purges before.
C22_MarkerWrittenLast ==
    [][/\ (MigRunning /\ run' # run) =>
             /\ r2'[R2Marker] = Absent
             /\ \A readOk \in BOOLEAN : ~MarkerFound(readOk, r2')
       /\ (r2'[R2Marker] # r2[R2Marker]) =>
             /\ migPc = "rcat"
             /\ {"copy_ws", "copy_sk", "purge_ws", "purge_sk"} \subseteq MigExecuted
      ]_vars

\* A step of an agent on the local trees; an rclone command that fails.
LocalModification == disk' # disk /\ loopPc' = loopPc
RemoteFailure == ~(failed' \subseteq failed)

\* C23: if from some point on no local modification is made and no remote
\* operation fails, then from some later point on every remote prefix holds
\* the current content of every non-excluded file of its local tree.
C23_EventuallyMirrored ==
    <>[][~LocalModification /\ ~RemoteFailure]_vars => <>[]Mirrored

\* C24: during and after a migration run, every object that was under a
\* legacy prefix when the run started exists under the legacy prefix, under
\* the corresponding current-namespace prefix or in the corresponding local
\* tree.
C24_NoDataLost ==
    \A k \in LegacyObjects(snap) :
        \/ r2[k] # Absent
        \/ r2[Relocated(k)] # Absent
        \/ disk[LocalOf(Relocated(k))] # Absent

\* C25: whatever invocations of the start script and gateway exits have
\* happened, at most one sync loop is alive in the container.
C25_OneSyncLoop == Cardinality(procs.loops) <= 1

====
